---------------------------- MODULE Spec2Model ----------------------------
(* Client of the resume reviewer: App (state and handlers), FileUploader,   *)
(* JobInput, ResultsDisplay and the analyzeResume service call.             *)
EXTENDS Integers, Sequences, FiniteSets

(***************************************************************************)
(* Bounds of the model                                                     *)
(***************************************************************************)
\* Longest run of leading (or trailing) whitespace of a job description.
MaxPad == 1
\* Job descriptions have a trimmed length within Slack of the 50-character floor.
Slack == 1
\* Cap on the number of analyze requests in flight.
MaxInFlight == 2

(***************************************************************************)
(* Program constants                                                       *)
(***************************************************************************)
minLength == 50
maxSize == 16 * 1024 * 1024
allowedTypes ==
    {"application/pdf",
     "application/vnd.openxmlformats-officedocument.wordprocessingml.document"}

\* JavaScript null: for selectedFile and results (objects) and for error (a string).
null == [isNull |-> TRUE]
nullMsg == "null"

SelectFileMsg == "Please select a resume file."
TooShortMsg ==
    "Please provide a detailed job description (at least 50 characters)."
TypeAlert == "Please select a PDF or DOCX file."
SizeAlert == "File size must be less than 16MB."
NoAlert == "none"
AnalysisFailedMsg == "Analysis failed"
NoConnectionMsg == "Unable to connect to the server. Please try again."
UnexpectedMsg == "An unexpected error occurred"
FallbackMsg == "Analysis failed. Please try again."

(***************************************************************************)
(* Strings.  A job description is kept as the lengths of its leading        *)
(* whitespace, of its core (first to last non-whitespace character) and of  *)
(* its trailing whitespace; a whitespace-only string has core = 0 and all   *)
(* of its length in lead.                                                   *)
(***************************************************************************)
Str(l, c, t) == [lead |-> l, core |-> c, trail |-> t]
EmptyStr == Str(0, 0, 0)
length(s) == s.lead + s.core + s.trail
trim(s) == Str(0, s.core, 0)

CoreLengths == {0} \cup ((minLength - Slack) .. (minLength + Slack))
JobDescriptions ==
    {Str(l, 0, 0) : l \in 0 .. MaxPad}
        \cup {Str(l, c, t) : l \in 0 .. MaxPad, c \in CoreLengths \ {0}, t \in 0 .. MaxPad}

(***************************************************************************)
(* Files offered to the uploader: a MIME type and a size in bytes.          *)
(***************************************************************************)
FileTypes == allowedTypes \cup {"text/plain"}
FileSizes == {maxSize - 1, maxSize, maxSize + 1}
Files == [type : FileTypes, size : FileSizes]

(***************************************************************************)
(* Response bodies: the top-level keys of the record.                      *)
(***************************************************************************)
AnalysisFields ==
    {"overall_score", "keyword_score", "tech_skill_score", "keyword_matches",
     "keyword_misses", "tech_skill_matches", "tech_skill_misses", "structure",
     "recommendations"}
\* The record ResultsDisplay reads: results.analysis.* and results.metadata.*.
NestedRecord == [keys |-> {"analysis", "metadata"}]
\* The flat record: the analysis fields at the top level, beside metadata.
FlatRecord == [keys |-> AnalysisFields \cup {"metadata"}]
ResponseBodies == {NestedRecord, FlatRecord}

ServerErrors == {"", "Unsupported file format", "Could not extract text"}
NoReply == [kind |-> "pending"]
Replies ==
    [kind : {"ok"}, data : ResponseBodies]
        \cup [kind : {"error_status"}, error : ServerErrors]
        \cup {[kind |-> "no_response"], [kind |-> "setup_error"]}

VARIABLES
    selectedFile,     \* App state
    jobDescription,   \* App state
    isAnalyzing,      \* App state
    results,          \* App state
    error,            \* App state
    pending,          \* analyzeResume calls in flight: [file, jd, reply]
    lastAlert,        \* the alert of FileUploader's last handleFileSelect
    resultsFor        \* history: the request whose reply is in results

vars ==
    <<selectedFile, jobDescription, isAnalyzing, results, error, pending,
      lastAlert, resultsFor>>

Init ==
    /\ selectedFile = null
    /\ jobDescription = EmptyStr
    /\ isAnalyzing = FALSE
    /\ results = null
    /\ error = nullMsg
    /\ pending = <<>>
    /\ lastAlert = NoAlert
    /\ resultsFor = null


(***************************************************************************)
(* services/api.js                                                         *)
(***************************************************************************)
\* analyzeResume, up to its await: the request is posted with the arguments given.
analyzeResume(resumeFile, jd) ==
    /\ Len(pending) < MaxInFlight
    /\ pending' = Append(pending, [file |-> resumeFile, jd |-> jd, reply |-> NoReply])

\* Mutant: the server's own message is dropped for the generic one.
analyzeResumeError_generic(reply) ==
    IF reply.kind = "error_status"
    THEN AnalysisFailedMsg
    ELSE IF reply.kind = "no_response"
         THEN NoConnectionMsg
         ELSE UnexpectedMsg

\* The message of the Error that analyzeResume's catch block throws.
analyzeResumeError(reply) ==
    IF reply.kind = "error_status"
    THEN IF reply.error # "" THEN reply.error ELSE AnalysisFailedMsg
    ELSE IF reply.kind = "no_response"
         THEN NoConnectionMsg
         ELSE UnexpectedMsg

\* The server answers request i, with a 2xx status and a body or with an error status.
ServerResponds(i, reply) ==
    /\ pending[i].reply = NoReply
    /\ reply.kind \in {"ok", "error_status"}
    /\ pending' = [pending EXCEPT ![i].reply = reply]
    /\ UNCHANGED <<selectedFile, jobDescription, isAnalyzing, results, error,
                   lastAlert, resultsFor>>

\* Mutant: no timeout is configured, a silent server is waited for indefinitely.
RequestTimesOut_never(i) ==
    /\ FALSE
    /\ UNCHANGED vars

\* No response within the 30 seconds of axios' timeout (or no connection at all):
\* the request is aborted, the error has a request and no response.
RequestTimesOut(i) ==
    /\ pending[i].reply = NoReply
    /\ pending' = [pending EXCEPT ![i].reply = [kind |-> "no_response"]]
    /\ UNCHANGED <<selectedFile, jobDescription, isAnalyzing, results, error,
                   lastAlert, resultsFor>>

\* The request could not be made: the error has neither a response nor a request.
RequestSetupFails(i) ==
    /\ pending[i].reply = NoReply
    /\ pending' = [pending EXCEPT ![i].reply = [kind |-> "setup_error"]]
    /\ UNCHANGED <<selectedFile, jobDescription, isAnalyzing, results, error,
                   lastAlert, resultsFor>>

(***************************************************************************)
(* App.js                                                                  *)
(***************************************************************************)
handleFileSelect(file) ==
    /\ selectedFile' = file
    /\ error' = nullMsg
    /\ results' = null
    /\ resultsFor' = null

handleJobDescriptionChange(value) ==
    /\ jobDescription' = value
    /\ error' = nullMsg
    /\ results' = null
    /\ resultsFor' = null
    /\ UNCHANGED <<selectedFile, isAnalyzing, pending, lastAlert>>

\* Mutant: the floor is applied to the text as typed, not to the trimmed text.
jobDescriptionTooShort_untrimmed(jd) ==
    length(jd) = 0 \/ length(jd) < minLength

\* !jobDescription || jobDescription.trim().length < 50
jobDescriptionTooShort(jd) ==
    length(jd) = 0 \/ length(trim(jd)) < minLength

\* Mutant: the previous results are not cleared when an analysis starts.
startAnalysis_keepResults ==
    /\ isAnalyzing' = TRUE
    /\ error' = nullMsg
    /\ analyzeResume(selectedFile, trim(jobDescription))
    /\ UNCHANGED <<selectedFile, jobDescription, lastAlert, results, resultsFor>>

\* Mutant: the previous error is not cleared when an analysis starts.
startAnalysis_keepError ==
    /\ isAnalyzing' = TRUE
    /\ results' = null
    /\ resultsFor' = null
    /\ analyzeResume(selectedFile, trim(jobDescription))
    /\ UNCHANGED <<selectedFile, jobDescription, lastAlert, error>>

\* handleAnalyze past its two checks, up to the await.
startAnalysis ==
    /\ isAnalyzing' = TRUE
    /\ error' = nullMsg
    /\ results' = null
    /\ resultsFor' = null
    /\ analyzeResume(selectedFile, trim(jobDescription))
    /\ UNCHANGED <<selectedFile, jobDescription, lastAlert>>

handleAnalyze ==
    IF selectedFile = null
    THEN /\ error' = SelectFileMsg
         /\ UNCHANGED <<selectedFile, jobDescription, isAnalyzing, results,
                        pending, lastAlert, resultsFor>>
    ELSE IF jobDescriptionTooShort(jobDescription)
         THEN /\ error' = TooShortMsg
              /\ UNCHANGED <<selectedFile, jobDescription, isAnalyzing, results,
                             pending, lastAlert, resultsFor>>
         ELSE startAnalysis

\* handleAnalyze from the await on: the reply of request i is applied.
Settle(i) ==
    LET req == pending[i]
        gone == [j \in 1 .. (Len(pending) - 1) |->
                    IF j < i THEN pending[j] ELSE pending[j + 1]]
    IN  /\ req.reply # NoReply
        /\ IF req.reply.kind = "ok"
           THEN /\ results' = req.reply.data
                /\ resultsFor' = [file |-> req.file, jd |-> req.jd]
                /\ UNCHANGED error
           ELSE /\ error' = (LET m == analyzeResumeError(req.reply)
                             IN  IF m = "" THEN FallbackMsg ELSE m)
                /\ UNCHANGED <<results, resultsFor>>
        /\ isAnalyzing' = FALSE
        /\ pending' = gone
        /\ UNCHANGED <<selectedFile, jobDescription, lastAlert>>

handleReset ==
    /\ selectedFile' = null
    /\ jobDescription' = EmptyStr
    /\ results' = null
    /\ resultsFor' = null
    /\ error' = nullMsg
    /\ UNCHANGED <<isAnalyzing, pending, lastAlert>>

isReadyToAnalyze ==
    selectedFile # null /\ length(trim(jobDescription)) >= minLength

\* Mutant: the analyze button stays enabled while an analysis runs.
AnalyzeButtonDisabled_noFlag == ~isReadyToAnalyze

\* disabled={!isReadyToAnalyze || isAnalyzing}
AnalyzeButtonDisabled == ~isReadyToAnalyze \/ isAnalyzing

\* {(results || error) && <button ... disabled={isAnalyzing}>}
ResetButtonEnabled ==
    (results # null \/ error # nullMsg) /\ ~isAnalyzing

ClickAnalyze == ~AnalyzeButtonDisabled /\ handleAnalyze

ClickReset == ResetButtonEnabled /\ handleReset

(***************************************************************************)
(* components/FileUploader.js  (disabled = isAnalyzing)                    *)
(***************************************************************************)
FileUploader_handleFileSelect(file) ==
    IF file.type \notin allowedTypes
    THEN /\ lastAlert' = TypeAlert
         /\ UNCHANGED <<selectedFile, error, results, resultsFor>>
    ELSE IF file.size > maxSize
         THEN /\ lastAlert' = SizeAlert
              /\ UNCHANGED <<selectedFile, error, results, resultsFor>>
         ELSE /\ lastAlert' = NoAlert
              /\ handleFileSelect(file)

\* A file dropped on the upload area.
handleDrop(file) ==
    /\ FileUploader_handleFileSelect(file)
    /\ UNCHANGED <<jobDescription, isAnalyzing, pending>>

\* A file chosen in the dialog of the (hidden) file input.
handleInputChange(file) ==
    /\ ~isAnalyzing
    /\ FileUploader_handleFileSelect(file)
    /\ UNCHANGED <<jobDescription, isAnalyzing, pending>>

\* The remove button of the selected file.
removeFile ==
    /\ selectedFile # null
    /\ ~isAnalyzing
    /\ handleFileSelect(null)
    /\ UNCHANGED <<jobDescription, isAnalyzing, pending, lastAlert>>

(***************************************************************************)
(* components/JobInput.js  (disabled = isAnalyzing)                        *)
(***************************************************************************)
JobInput_handleChange(value) ==
    /\ ~isAnalyzing
    /\ handleJobDescriptionChange(value)

\* characterCount >= minLength: the 'Ready for analysis' indicator.
isValid(value) == length(value) >= minLength

(***************************************************************************)
(* components/ResultsDisplay.js: what the component renders.                *)
(***************************************************************************)
ResultsDisplay(res) ==
    IF res = null \/ "analysis" \notin res.keys
    THEN "nothing"
    ELSE IF "metadata" \in res.keys THEN "report" ELSE "TypeError"

(***************************************************************************)
(* The client under UI events and server replies.                          *)
(***************************************************************************)
Next ==
    \/ \E f \in Files : handleInputChange(f)
    \/ \E f \in Files : handleDrop(f)
    \/ removeFile
    \/ \E v \in JobDescriptions : JobInput_handleChange(v)
    \/ ClickAnalyze
    \/ ClickReset
    \/ \E i \in 1 .. Len(pending) : \E r \in Replies : ServerResponds(i, r)
    \/ \E i \in 1 .. Len(pending) : RequestTimesOut(i)
    \/ \E i \in 1 .. Len(pending) : RequestSetupFails(i)
    \/ \E i \in 1 .. Len(pending) : Settle(i)

Spec == Init /\ [][Next]_vars

\* A posted request settles within the timeout, and the continuation of a
\* settled promise runs.
LiveSpec ==
    /\ Spec
    /\ WF_vars(\E i \in 1 .. Len(pending) : RequestTimesOut(i))
    /\ WF_vars(\E i \in 1 .. Len(pending) : Settle(i))

(***************************************************************************)
(* handleAnalyze as a function of the component's state: invoked in any     *)
(* state of selectedFile and jobDescription, the button's gate aside.       *)
(***************************************************************************)
accepts(file) == file.type \in allowedTypes /\ ~(file.size > maxSize)

HandlerInit ==
    /\ selectedFile \in {null} \cup {f \in Files : accepts(f)}
    /\ jobDescription \in JobDescriptions
    /\ isAnalyzing = FALSE
    /\ results = null
    /\ error = nullMsg
    /\ pending = <<>>
    /\ lastAlert = NoAlert
    /\ resultsFor = null

HandlerNext ==
    \/ handleAnalyze
    \/ \E i \in 1 .. Len(pending) : \E r \in Replies : ServerResponds(i, r)
    \/ \E i \in 1 .. Len(pending) : RequestTimesOut(i)
    \/ \E i \in 1 .. Len(pending) : RequestSetupFails(i)
    \/ \E i \in 1 .. Len(pending) : Settle(i)

HandlerSpec == HandlerInit /\ [][HandlerNext]_vars

(***************************************************************************)
(* Properties                                                              *)
(***************************************************************************)
Ready(file, jd) == file # null /\ length(trim(jd)) >= minLength
Completed == ~isAnalyzing /\ results # null /\ error = nullMsg
Failed == ~isAnalyzing /\ error # nullMsg /\ results = null
AcceptableFile(file) == file.type \in allowedTypes /\ file.size < maxSize

\* C1: Analyzing (isAnalyzing = true) is entered only from a state where a file
\* is selected and the trimmed job description has at least 50 characters, and
\* every exit from Analyzing lands in exactly one of Completed (results set,
\* error null) or Failed (error set, results null), with isAnalyzing false.
C1_Transitions ==
    [][/\ (~isAnalyzing /\ isAnalyzing') => Ready(selectedFile, jobDescription)
       /\ (isAnalyzing /\ ~isAnalyzing') =>
              /\ Completed' \/ Failed'
              /\ ~(Completed' /\ Failed')]_vars

\* An analysis has ended in Failed by the timeout.
C1_Witness == Failed /\ error = NoConnectionMsg /\ pending = <<>>

\* C2: every run of handleAnalyze posts a request if and only if a file is
\* selected and the trimmed job description has at least 50 characters; a
\* text rejected by the floor sends nothing and sets the too-short message;
\* the text sent is the trimmed text, posted with the selected file.
C2_FloorEnforced ==
    [][handleAnalyze =>
          /\ (Len(pending') = Len(pending) + 1) <=> Ready(selectedFile, jobDescription)
          /\ ~Ready(selectedFile, jobDescription) => pending' = pending
          /\ (selectedFile # null /\ length(trim(jobDescription)) < minLength) =>
                 error' = TooShortMsg
          /\ Ready(selectedFile, jobDescription) =>
                 /\ pending'[Len(pending')].jd = trim(jobDescription)
                 /\ pending'[Len(pending')].file = selectedFile
                 /\ length(pending'[Len(pending')].jd) >= minLength]_vars

\* A text of 49 characters padded to 50 or more has been rejected, nothing sent.
C2_Witness ==
    /\ error = TooShortMsg
    /\ length(trim(jobDescription)) = minLength - 1
    /\ length(jobDescription) >= minLength
    /\ pending = <<>>

\* C3: every file handed to onFileSelect, and so every file uploaded, has a
\* PDF or DOCX type and a size strictly under 16 MiB; any other file dropped
\* or chosen is rejected with an alert, and the selection, the results and the
\* error stay as they were.
C3_OnlySmallDocuments ==
    [][/\ selectedFile' # null => AcceptableFile(selectedFile')
       /\ \A i \in 1 .. Len(pending') : AcceptableFile(pending'[i].file)
       /\ \A f \in Files :
              ((handleDrop(f) \/ handleInputChange(f)) /\ ~AcceptableFile(f)) =>
                  /\ lastAlert' # NoAlert
                  /\ UNCHANGED <<selectedFile, results, error>>]_vars

\* C4: every analysis that is started eventually ends: from any state with
\* isAnalyzing = true the client reaches a state with isAnalyzing = false and
\* with results or error set, also when the server never answers.
C4_AnalysisEnds ==
    isAnalyzing ~> (~isAnalyzing /\ (results # null \/ error # nullMsg))

\* A request has been aborted by the timeout and its error is about to be applied.
C4_Witness ==
    /\ isAnalyzing
    /\ Len(pending) = 1
    /\ pending[1].reply = [kind |-> "no_response"]
    /\ error = nullMsg

\* C5: when a reply that is a failure is applied, the error becomes the
\* server's own message if the response has one; 'Analysis failed' exactly when
\* the response has none, the no-connection message exactly when no response
\* was received, and the unexpected-error message exactly when the request
\* could not be made.
C5_ErrorMessages ==
    [][\A i \in 1 .. Len(pending) :
           (Settle(i) /\ pending[i].reply.kind # "ok") =>
               LET r == pending[i].reply
               IN  /\ (r.kind = "error_status" /\ r.error # "") => error' = r.error
                   /\ error' = AnalysisFailedMsg <=>
                          (r.kind = "error_status" /\ r.error = "")
                   /\ error' = NoConnectionMsg <=> r.kind = "no_response"
                   /\ error' = UnexpectedMsg <=> r.kind = "setup_error"
                   /\ error' \notin {nullMsg, FallbackMsg}]_vars

\* The server's own message is shown.
C5_Witness == Failed /\ error \in ServerErrors \ {""}

\* C6: whenever the client is in Completed with a response record that carries
\* the wire fields at the top-level names (overall_score, ..., recommendations,
\* metadata), ResultsDisplay renders the report rather than nothing.
C6_ReportDisplayed ==
    (Completed /\ (AnalysisFields \cup {"metadata"}) \subseteq results.keys) =>
        ResultsDisplay(results) = "report"

\* C7: JobInput's 'Ready for analysis' indicator is shown exactly when the job
\* description meets the minimum App applies: trimmed length >= 50.
C7_IndicatorAgrees ==
    isValid(jobDescription) <=> length(trim(jobDescription)) >= minLength

\* C8: results shown were produced by a request made with the file now selected
\* and the (trimmed) job description now entered, and neither input changes
\* while a request is in flight.
C8_ResultsNotStale ==
    /\ results # null =>
           /\ resultsFor.file = selectedFile
           /\ resultsFor.jd = trim(jobDescription)
    /\ \A i \in 1 .. Len(pending) :
           /\ pending[i].file = selectedFile
           /\ pending[i].jd = trim(jobDescription)

\* C9: results and error are never both set, and while an analysis runs both
\* are null.
C9_ResultsXorError ==
    /\ ~(results # null /\ error # nullMsg)
    /\ isAnalyzing => (results = null /\ error = nullMsg)

\* A successful reply has arrived and is not applied yet.
C9_Witness ==
    /\ isAnalyzing
    /\ Len(pending) = 1
    /\ pending[1].reply.kind = "ok"
    /\ results = null

\* C10: at most one analyze request is in flight; while one is, isAnalyzing is
\* true, the analyze button is disabled and the reset button cannot be used.
C10_OneInFlight ==
    /\ Len(pending) <= 1
    /\ pending # <<>> =>
           /\ isAnalyzing
           /\ AnalyzeButtonDisabled
           /\ ~ResetButtonEnabled
    /\ isAnalyzing => pending # <<>>

\* A request is in flight while the inputs would allow another.
C10_Witness ==
    /\ Len(pending) = 1
    /\ isReadyToAnalyze
    /\ pending[1].reply = NoReply

=============================================================================
